---- MODULE Spec2Model ----
(***************************************************************************)
(* Library management system: Book, Member, Librarian and the Library      *)
(* facade that coordinates borrow/return across the three collections.     *)
(*                                                                         *)
(* Python objects are records; a dict is a function whose DOMAIN is its    *)
(* key set; an optional field is None (the empty tuple) or Some(v).  A     *)
(* method that mutates its receiver and returns a flag is an operator      *)
(* returning [self |-> the receiver afterwards, ret |-> the flag].         *)
(***************************************************************************)
EXTENDS Integers, Sequences, FiniteSets, TLC

(* ------------------------------ bounds -------------------------------- *)

\* datetime.now() returns one of the instants 0..MaxTime, half a second apart
MaxTime == 1
\* authenticate is not taken once the login counter has reached MaxLogins
MaxLogins == 1

ISBNs == {"111", "222"}
MemberIds == {"M1", "M2"}
LibrarianIds == {"L1"}
Titles == {"Dune"}
Authors == {"Herbert"}
Names == {"Alice"}
Passwords == {"admin123", "secret"}

(* --------------------------- optional values -------------------------- *)

None == << >>
Some(v) == << v >>

(* ------------------------------ datetime ------------------------------ *)

\* The values datetime.now() may return.  The wall clock is not monotonic
\* (it can be set back between two calls), so every call draws from all of them.
DatetimeAt(k) == [sec |-> k \div 2, usec |-> (k % 2) * 500000]

Datetimes == { DatetimeAt(k) : k \in 0..MaxTime }

Epoch == [sec |-> 0, usec |-> 0]

\* datetime.isoformat(): the fraction is written only when microsecond # 0.
\* The text is modelled as the sequence of its numeric fields.
isoformat(dt) == IF dt.usec # 0 THEN << dt.sec, dt.usec >> ELSE << dt.sec >>

\* datetime.fromisoformat(): an absent fraction reads as microsecond 0.
fromisoformat(s) == [sec |-> s[1], usec |-> IF Len(s) > 1 THEN s[2] ELSE 0]

(* -------------------------------- Book -------------------------------- *)

Book(title, author, isbn) ==
    [title |-> title, author |-> author, isbn |-> isbn,
     available |-> TRUE, borrowed_by |-> None, borrow_date |-> None]

Book_is_available(self) == self.available

Book_get_borrowed_by(self) == self.borrowed_by

Book_get_borrow_date(self) == self.borrow_date

\* Mutant: a Borrowed book is handed to the next caller
Book_borrow_overwrites(self, member_id, t) ==
    [self |-> [self EXCEPT !.available = FALSE,
                           !.borrowed_by = Some(member_id),
                           !.borrow_date = Some(t)],
     ret |-> TRUE]

Book_borrow(self, member_id, t) ==
    IF self.available
    THEN [self |-> [self EXCEPT !.available = FALSE,
                                !.borrowed_by = Some(member_id),
                                !.borrow_date = Some(t)],
          ret |-> TRUE]
    ELSE [self |-> self, ret |-> FALSE]

\* Mutant: the return forgets to clear the borrow date
Book_return_book_keeps_date(self) ==
    IF ~ self.available
    THEN [self |-> [self EXCEPT !.available = TRUE, !.borrowed_by = None],
          ret |-> TRUE]
    ELSE [self |-> self, ret |-> FALSE]

Book_return_book(self) ==
    IF ~ self.available
    THEN [self |-> [self EXCEPT !.available = TRUE,
                                !.borrowed_by = None,
                                !.borrow_date = None],
          ret |-> TRUE]
    ELSE [self |-> self, ret |-> FALSE]

(* ------------------------------- Member ------------------------------- *)

Member(name, member_id, t) ==
    [name |-> name, member_id |-> member_id,
     borrowed_books |-> << >>, registration_date |-> t]

InList(x, list) == \E k \in 1..Len(list) : list[k] = x

\* list.remove(x): drops the first occurrence of x
RECURSIVE ListRemove(_, _)
ListRemove(list, x) ==
    IF list = << >> THEN << >>
    ELSE IF Head(list) = x THEN Tail(list)
    ELSE << Head(list) >> \o ListRemove(Tail(list), x)

Member_get_borrowed_books(self) == self.borrowed_books

Member_get_borrowed_count(self) == Len(self.borrowed_books)

\* Mutant: the `not in` test is missing
Member_borrow_book_always(self, isbn) ==
    [self |-> [self EXCEPT !.borrowed_books = Append(@, isbn)], ret |-> TRUE]

Member_borrow_book(self, isbn) ==
    IF ~ InList(isbn, self.borrowed_books)
    THEN [self |-> [self EXCEPT !.borrowed_books = Append(@, isbn)], ret |-> TRUE]
    ELSE [self |-> self, ret |-> FALSE]

\* Mutant: the ISBN is reported returned but stays in the list
Member_return_book_keeps_entry(self, isbn) ==
    IF InList(isbn, self.borrowed_books)
    THEN [self |-> self, ret |-> TRUE]
    ELSE [self |-> self, ret |-> FALSE]

Member_return_book(self, isbn) ==
    IF InList(isbn, self.borrowed_books)
    THEN [self |-> [self EXCEPT !.borrowed_books = ListRemove(@, isbn)], ret |-> TRUE]
    ELSE [self |-> self, ret |-> FALSE]

Member_has_borrowed(self, isbn) == InList(isbn, self.borrowed_books)

(* ------------------------------ Librarian ----------------------------- *)

Librarian(name, librarian_id, password) ==
    [name |-> name, librarian_id |-> librarian_id, password |-> password,
     login_count |-> 0, last_login |-> None]

Librarian_get_login_count(self) == self.login_count

Librarian_get_last_login(self) == self.last_login

\* Mutant: every attempt is counted, not only the successful ones
Librarian_authenticate_counts_attempts(self, password, t) ==
    IF self.password = password
    THEN [self |-> [self EXCEPT !.login_count = @ + 1, !.last_login = Some(t)],
          ret |-> TRUE]
    ELSE [self |-> [self EXCEPT !.login_count = @ + 1], ret |-> FALSE]

Librarian_authenticate(self, password, t) ==
    IF self.password = password
    THEN [self |-> [self EXCEPT !.login_count = @ + 1, !.last_login = Some(t)],
          ret |-> TRUE]
    ELSE [self |-> self, ret |-> FALSE]

\* Mutant: the old password is not compared with the stored one
Librarian_change_password_unchecked(self, old_password, new_password) ==
    [self |-> [self EXCEPT !.password = new_password], ret |-> TRUE]

Librarian_change_password(self, old_password, new_password) ==
    IF self.password = old_password
    THEN [self |-> [self EXCEPT !.password = new_password], ret |-> TRUE]
    ELSE [self |-> self, ret |-> FALSE]

(* ---------------------------- serialization --------------------------- *)

\* Python truthiness of an optional text: None and the empty text are false
Truthy(o) == o # None /\ o[1] # << >>

\* `x.isoformat() if x else None`: a datetime object is always true
IsoOrNone(o) == IF o # None THEN Some(isoformat(o[1])) ELSE None

Book_to_dict(self) ==
    [title |-> self.title, author |-> self.author, isbn |-> self.isbn,
     available |-> self.available, borrowed_by |-> self.borrowed_by,
     borrow_date |-> IsoOrNone(self.borrow_date)]

Book_from_dict(data) ==
    LET book == Book(data.title, data.author, data.isbn)
    IN  [book EXCEPT !.available = data.available,
                     !.borrowed_by = data.borrowed_by,
                     !.borrow_date = IF Truthy(data.borrow_date)
                                     THEN Some(fromisoformat(data.borrow_date[1]))
                                     ELSE @]

Member_to_dict(self) ==
    [name |-> self.name, member_id |-> self.member_id,
     borrowed_books |-> self.borrowed_books,
     registration_date |-> isoformat(self.registration_date)]

\* Mutant: the saved registration date is not put back
Member_from_dict_keeps_now(data, t) ==
    LET member == Member(data.name, data.member_id, t)
    IN  [member EXCEPT !.borrowed_books = data.borrowed_books]

Member_from_dict(data, t) ==
    LET member == Member(data.name, data.member_id, t)
    IN  [member EXCEPT !.borrowed_books = data.borrowed_books,
                       !.registration_date = fromisoformat(data.registration_date)]

Librarian_to_dict(self) ==
    [name |-> self.name, librarian_id |-> self.librarian_id,
     password |-> self.password, login_count |-> self.login_count,
     last_login |-> IsoOrNone(self.last_login)]

Librarian_from_dict(data) ==
    LET librarian == Librarian(data.name, data.librarian_id, data.password)
    IN  [librarian EXCEPT !.login_count = data.login_count,
                          !.last_login = IF Truthy(data.last_login)
                                         THEN Some(fromisoformat(data.last_login[1]))
                                         ELSE @]

(* ------------------------------- Library ------------------------------ *)

\* dict[key] = value on a dict that may or may not hold key
DictSet(d, key, value) ==
    [k \in DOMAIN d \cup {key} |-> IF k = key THEN value ELSE d[k]]

\* del dict[key]
DictDel(d, key) == [k \in DOMAIN d \ {key} |-> d[k]]

EmptyDict == [k \in {} |-> None]

Library_add_book(bks, book) ==
    IF book.isbn \notin DOMAIN bks
    THEN [books |-> DictSet(bks, book.isbn, book), ret |-> TRUE]
    ELSE [books |-> bks, ret |-> FALSE]

\* Mutant: the availability test is missing
Library_remove_book_unchecked(bks, isbn) ==
    IF isbn \in DOMAIN bks
    THEN [books |-> DictDel(bks, isbn), ret |-> TRUE]
    ELSE [books |-> bks, ret |-> FALSE]

Library_remove_book(bks, isbn) ==
    IF isbn \in DOMAIN bks /\ Book_is_available(bks[isbn])
    THEN [books |-> DictDel(bks, isbn), ret |-> TRUE]
    ELSE [books |-> bks, ret |-> FALSE]

Library_register_member(mems, member) ==
    IF member.member_id \notin DOMAIN mems
    THEN [members |-> DictSet(mems, member.member_id, member), ret |-> TRUE]
    ELSE [members |-> mems, ret |-> FALSE]

\* Mutant: the borrowed-count test is missing
Library_remove_member_unchecked(mems, member_id) ==
    IF member_id \in DOMAIN mems
    THEN [members |-> DictDel(mems, member_id), ret |-> TRUE]
    ELSE [members |-> mems, ret |-> FALSE]

Library_remove_member(mems, member_id) ==
    IF member_id \in DOMAIN mems /\ Member_get_borrowed_count(mems[member_id]) = 0
    THEN [members |-> DictDel(mems, member_id), ret |-> TRUE]
    ELSE [members |-> mems, ret |-> FALSE]

\* Mutant: the new librarian replaces the one stored under the same id
Library_add_librarian_overwrite(libs, librarian) ==
    [librarians |-> DictSet(libs, librarian.librarian_id, librarian),
     ret |-> librarian.librarian_id \notin DOMAIN libs]

Library_add_librarian(libs, librarian) ==
    IF librarian.librarian_id \notin DOMAIN libs
    THEN [librarians |-> DictSet(libs, librarian.librarian_id, librarian), ret |-> TRUE]
    ELSE [librarians |-> libs, ret |-> FALSE]

\* dict.values() as a list.  The order of insertion is not kept by the model:
\* the keys are listed in an arbitrary fixed order.
RECURSIVE KeyList(_)
KeyList(keys) ==
    IF keys = {} THEN << >>
    ELSE LET k == CHOOSE x \in keys : TRUE
         IN  << k >> \o KeyList(keys \ {k})

DictValues(d) == [n \in 1..Len(KeyList(DOMAIN d)) |-> d[KeyList(DOMAIN d)[n]]]

Library_get_all_books(bks) == DictValues(bks)

Library_get_available_books(bks) ==
    LET keep(b) == Book_is_available(b) IN SelectSeq(DictValues(bks), keep)

\* Mutant: the `not` of the filter is missing
Library_get_borrowed_books_no_not(bks) ==
    LET keep(b) == Book_is_available(b) IN SelectSeq(DictValues(bks), keep)

Library_get_borrowed_books(bks) ==
    LET keep(b) == ~ Book_is_available(b) IN SelectSeq(DictValues(bks), keep)

Library_get_statistics(bks, mems) ==
    [total_books |-> Cardinality(DOMAIN bks),
     available_books |-> Len(Library_get_available_books(bks)),
     borrowed_books |-> Len(Library_get_borrowed_books(bks)),
     total_members |-> Cardinality(DOMAIN mems)]

Outcome(ok, msg, bks, mems) ==
    [ok |-> ok, msg |-> msg, books |-> bks, members |-> mems]

\* Mutant: the book is looked up before the member
Library_borrow_book_book_first(bks, mems, member_id, isbn, t) ==
    IF isbn \notin DOMAIN bks
    THEN Outcome(FALSE, << "Book not found" >>, bks, mems)
    ELSE IF member_id \notin DOMAIN mems
    THEN Outcome(FALSE, << "Member not found" >>, bks, mems)
    ELSE IF ~ Book_is_available(bks[isbn])
    THEN Outcome(FALSE, << "Book is not available" >>, bks, mems)
    ELSE LET b == Book_borrow(bks[isbn], member_id, t)
             bks2 == [bks EXCEPT ![isbn] = b.self]
         IN  IF ~ b.ret
             THEN Outcome(FALSE, << "Failed to borrow book" >>, bks2, mems)
             ELSE LET m == Member_borrow_book(mems[member_id], isbn)
                      mems2 == [mems EXCEPT ![member_id] = m.self]
                  IN  IF m.ret
                      THEN Outcome(TRUE, << "Book '", bks[isbn].title,
                                            "' borrowed successfully" >>, bks2, mems2)
                      ELSE Outcome(FALSE, << "Failed to borrow book" >>, bks2, mems2)

\* Mutant: the is_available() test is missing, Book.borrow alone decides
Library_borrow_book_no_avail_check(bks, mems, member_id, isbn, t) ==
    IF member_id \notin DOMAIN mems
    THEN Outcome(FALSE, << "Member not found" >>, bks, mems)
    ELSE IF isbn \notin DOMAIN bks
    THEN Outcome(FALSE, << "Book not found" >>, bks, mems)
    ELSE LET b == Book_borrow(bks[isbn], member_id, t)
             bks2 == [bks EXCEPT ![isbn] = b.self]
         IN  IF ~ b.ret
             THEN Outcome(FALSE, << "Failed to borrow book" >>, bks2, mems)
             ELSE LET m == Member_borrow_book(mems[member_id], isbn)
                      mems2 == [mems EXCEPT ![member_id] = m.self]
                  IN  IF m.ret
                      THEN Outcome(TRUE, << "Book '", bks[isbn].title,
                                            "' borrowed successfully" >>, bks2, mems2)
                      ELSE Outcome(FALSE, << "Failed to borrow book" >>, bks2, mems2)

\* `book.borrow(member_id) and member.borrow_book(isbn)`: the member is
\* touched only when the book-side call returned True; neither is undone.
\* Mutant: the Book mutation is undone when the Member mutation fails
Library_borrow_book_rollback(bks, mems, member_id, isbn, t) ==
    IF member_id \notin DOMAIN mems
    THEN Outcome(FALSE, << "Member not found" >>, bks, mems)
    ELSE IF isbn \notin DOMAIN bks
    THEN Outcome(FALSE, << "Book not found" >>, bks, mems)
    ELSE IF ~ Book_is_available(bks[isbn])
    THEN Outcome(FALSE, << "Book is not available" >>, bks, mems)
    ELSE LET b == Book_borrow(bks[isbn], member_id, t)
             bks2 == [bks EXCEPT ![isbn] = b.self]
             m == Member_borrow_book(mems[member_id], isbn)
             mems2 == [mems EXCEPT ![member_id] = m.self]
         IN  IF b.ret /\ m.ret
             THEN Outcome(TRUE, << "Book '", bks[isbn].title,
                                   "' borrowed successfully" >>, bks2, mems2)
             ELSE Outcome(FALSE, << "Failed to borrow book" >>, bks, mems)

Library_borrow_book(bks, mems, member_id, isbn, t) ==
    IF member_id \notin DOMAIN mems
    THEN Outcome(FALSE, << "Member not found" >>, bks, mems)
    ELSE IF isbn \notin DOMAIN bks
    THEN Outcome(FALSE, << "Book not found" >>, bks, mems)
    ELSE IF ~ Book_is_available(bks[isbn])
    THEN Outcome(FALSE, << "Book is not available" >>, bks, mems)
    ELSE LET b == Book_borrow(bks[isbn], member_id, t)
             bks2 == [bks EXCEPT ![isbn] = b.self]
         IN  IF ~ b.ret
             THEN Outcome(FALSE, << "Failed to borrow book" >>, bks2, mems)
             ELSE LET m == Member_borrow_book(mems[member_id], isbn)
                      mems2 == [mems EXCEPT ![member_id] = m.self]
                  IN  IF m.ret
                      THEN Outcome(TRUE, << "Book '", bks[isbn].title,
                                            "' borrowed successfully" >>, bks2, mems2)
                      ELSE Outcome(FALSE, << "Failed to borrow book" >>, bks2, mems2)

\* Mutant: the has_borrowed() test is missing
Library_return_book_no_hold_check(bks, mems, member_id, isbn) ==
    IF member_id \notin DOMAIN mems
    THEN Outcome(FALSE, << "Member not found" >>, bks, mems)
    ELSE IF isbn \notin DOMAIN bks
    THEN Outcome(FALSE, << "Book not found" >>, bks, mems)
    ELSE LET b == Book_return_book(bks[isbn])
             bks2 == [bks EXCEPT ![isbn] = b.self]
         IN  IF ~ b.ret
             THEN Outcome(FALSE, << "Failed to return book" >>, bks2, mems)
             ELSE LET m == Member_return_book(mems[member_id], isbn)
                      mems2 == [mems EXCEPT ![member_id] = m.self]
                  IN  IF m.ret
                      THEN Outcome(TRUE, << "Book '", bks[isbn].title,
                                            "' returned successfully" >>, bks2, mems2)
                      ELSE Outcome(FALSE, << "Failed to return book" >>, bks2, mems2)

\* Mutant: only the book side of the return is applied
Library_return_book_book_only(bks, mems, member_id, isbn) ==
    IF member_id \notin DOMAIN mems
    THEN Outcome(FALSE, << "Member not found" >>, bks, mems)
    ELSE IF isbn \notin DOMAIN bks
    THEN Outcome(FALSE, << "Book not found" >>, bks, mems)
    ELSE IF ~ Member_has_borrowed(mems[member_id], isbn)
    THEN Outcome(FALSE, << "Member has not borrowed this book" >>, bks, mems)
    ELSE LET b == Book_return_book(bks[isbn])
             bks2 == [bks EXCEPT ![isbn] = b.self]
         IN  IF b.ret
             THEN Outcome(TRUE, << "Book '", bks[isbn].title,
                                   "' returned successfully" >>, bks2, mems)
             ELSE Outcome(FALSE, << "Failed to return book" >>, bks2, mems)

Library_return_book(bks, mems, member_id, isbn) ==
    IF member_id \notin DOMAIN mems
    THEN Outcome(FALSE, << "Member not found" >>, bks, mems)
    ELSE IF isbn \notin DOMAIN bks
    THEN Outcome(FALSE, << "Book not found" >>, bks, mems)
    ELSE IF ~ Member_has_borrowed(mems[member_id], isbn)
    THEN Outcome(FALSE, << "Member has not borrowed this book" >>, bks, mems)
    ELSE LET b == Book_return_book(bks[isbn])
             bks2 == [bks EXCEPT ![isbn] = b.self]
         IN  IF ~ b.ret
             THEN Outcome(FALSE, << "Failed to return book" >>, bks2, mems)
             ELSE LET m == Member_return_book(mems[member_id], isbn)
                      mems2 == [mems EXCEPT ![member_id] = m.self]
                  IN  IF m.ret
                      THEN Outcome(TRUE, << "Book '", bks[isbn].title,
                                            "' returned successfully" >>, bks2, mems2)
                      ELSE Outcome(FALSE, << "Failed to return book" >>, bks2, mems2)

(* ------------------------------- state -------------------------------- *)

VARIABLES
    books,       \* Library.__books: isbn -> Book
    members,     \* Library.__members: member_id -> Member
    librarians,  \* Library.__librarians: librarian_id -> Librarian
    last,        \* the most recent call: its name, arguments and result
    book,        \* a Book used on its own
    member,      \* a Member used on its own
    librarian,   \* a Librarian used on its own
    auth_ok,     \* how many authenticate calls on it have returned True
    calls,       \* per caller: the borrow_book/return_book call it is in, or its last result
    heap,        \* Book objects removed from the catalog while a caller still refers to them
    locking      \* whether callers take one per-Library lock around each operation

vars == << books, members, librarians, last, book, member, librarian, auth_ok,
          calls, heap, locking >>

lib_vars == << books, members, librarians >>

obj_vars == << book, member, librarian, auth_ok >>

conc_vars == << calls, heap, locking >>

Call(op, key, mid, ok, msg) ==
    [op |-> op, key |-> key, mid |-> mid, ok |-> ok, msg |-> msg]

NoCall == Call("", "", "", TRUE, << >>)

\* Entities as their constructors make them
NewBooks == { Book(t, a, i) : t \in Titles, a \in Authors, i \in ISBNs }

NewMembers(t) == { Member(n, m, t) : n \in Names, m \in MemberIds }

NewLibrarians == { Librarian(n, l, p) : n \in Names, l \in LibrarianIds, p \in Passwords }

\* The callers of a Library shared by several threads: each member drives
\* the borrow_book and return_book calls made in their own name.
Callers == MemberIds

\* A caller outside any call, with the result of its last call if it made one
IdleCaller(op, isbn, ok, msg) ==
    [pc |-> "idle", op |-> op, isbn |-> isbn, ok |-> ok, msg |-> msg,
     title |-> "", m_det |-> None, b_det |-> None]

\* No caller has called yet, no object is detached, no lock is used
NoCallers ==
    /\ calls = [c \in Callers |-> IdleCaller("", "", FALSE, << >>)]
    /\ heap = [s \in Callers |-> None]
    /\ locking = FALSE

\* Library.__init__: three empty collections
Init ==
    /\ books = EmptyDict
    /\ members = EmptyDict
    /\ librarians = EmptyDict
    /\ last = NoCall
    /\ book = Book("Dune", "Herbert", "111")
    /\ member = Member("Alice", "M1", Epoch)
    /\ librarian = Librarian("Alice", "L1", "admin123")
    /\ auth_ok = 0
    /\ NoCallers

(* --------------------------- Library actions --------------------------- *)

AddBook(b) ==
    LET r == Library_add_book(books, b)
    IN  /\ books' = r.books
        /\ last' = Call("add_book", b.isbn, "", r.ret, << >>)
        /\ UNCHANGED << members, librarians, obj_vars, conc_vars >>

RemoveBook(isbn) ==
    LET r == Library_remove_book(books, isbn)
    IN  /\ books' = r.books
        /\ last' = Call("remove_book", isbn, "", r.ret, << >>)
        /\ UNCHANGED << members, librarians, obj_vars, conc_vars >>

RegisterMember(m) ==
    LET r == Library_register_member(members, m)
    IN  /\ members' = r.members
        /\ last' = Call("register_member", m.member_id, m.member_id, r.ret, << >>)
        /\ UNCHANGED << books, librarians, obj_vars, conc_vars >>

RemoveMember(member_id) ==
    LET r == Library_remove_member(members, member_id)
    IN  /\ members' = r.members
        /\ last' = Call("remove_member", member_id, member_id, r.ret, << >>)
        /\ UNCHANGED << books, librarians, obj_vars, conc_vars >>

AddLibrarian(l) ==
    LET r == Library_add_librarian(librarians, l)
    IN  /\ librarians' = r.librarians
        /\ last' = Call("add_librarian", l.librarian_id, "", r.ret, << >>)
        /\ UNCHANGED << books, members, obj_vars, conc_vars >>

BorrowBook(member_id, isbn, t) ==
    LET r == Library_borrow_book(books, members, member_id, isbn, t)
    IN  /\ books' = r.books
        /\ members' = r.members
        /\ last' = Call("borrow_book", isbn, member_id, r.ok, r.msg)
        /\ UNCHANGED << librarians, obj_vars, conc_vars >>

ReturnBook(member_id, isbn) ==
    LET r == Library_return_book(books, members, member_id, isbn)
    IN  /\ books' = r.books
        /\ members' = r.members
        /\ last' = Call("return_book", isbn, member_id, r.ok, r.msg)
        /\ UNCHANGED << librarians, obj_vars, conc_vars >>

\* library.find_librarian(id).authenticate(password)
Authenticate(librarian_id, password, t) ==
    /\ librarian_id \in DOMAIN librarians
    /\ librarians[librarian_id].login_count < MaxLogins
    /\ LET r == Librarian_authenticate(librarians[librarian_id], password, t)
       IN  /\ librarians' = [librarians EXCEPT ![librarian_id] = r.self]
           /\ last' = Call("authenticate", librarian_id, "", r.ret, << >>)
    /\ UNCHANGED << books, members, obj_vars, conc_vars >>

\* library.find_librarian(id).change_password(old, new)
ChangePassword(librarian_id, old_password, new_password) ==
    /\ librarian_id \in DOMAIN librarians
    /\ LET r == Librarian_change_password(librarians[librarian_id],
                                          old_password, new_password)
       IN  /\ librarians' = [librarians EXCEPT ![librarian_id] = r.self]
           /\ last' = Call("change_password", librarian_id, "", r.ret, << >>)
    /\ UNCHANGED << books, members, obj_vars, conc_vars >>

\* The ids a caller may pass: the known ones and one that is never registered
AnyMemberId == MemberIds \cup {"Mx"}

AnyISBN == ISBNs \cup {"999"}

\* The Library driven through its book and member operations,
\* every entity handed to it being newly constructed.
Next ==
    \/ \E b \in NewBooks : AddBook(b)
    \/ \E i \in AnyISBN : RemoveBook(i)
    \/ \E t \in Datetimes : \E m \in NewMembers(t) : RegisterMember(m)
    \/ \E m \in AnyMemberId : RemoveMember(m)
    \/ \E m \in AnyMemberId, i \in AnyISBN, t \in Datetimes : BorrowBook(m, i, t)
    \/ \E m \in AnyMemberId, i \in AnyISBN : ReturnBook(m, i)

Spec == Init /\ [][Next]_vars

\* The same with the librarian collection and the librarians' own methods;
\* the calls name ids from the known sets.
NextStaff ==
    \/ \E b \in NewBooks : AddBook(b)
    \/ \E i \in ISBNs : RemoveBook(i)
    \/ \E t \in Datetimes : \E m \in NewMembers(t) : RegisterMember(m)
    \/ \E m \in MemberIds : RemoveMember(m)
    \/ \E m \in MemberIds, i \in ISBNs, t \in Datetimes : BorrowBook(m, i, t)
    \/ \E m \in MemberIds, i \in ISBNs : ReturnBook(m, i)
    \/ \E l \in NewLibrarians : AddLibrarian(l)
    \/ \E l \in LibrarianIds, p \in Passwords, t \in Datetimes : Authenticate(l, p, t)
    \/ \E l \in LibrarianIds, o \in Passwords, n \in Passwords : ChangePassword(l, o, n)

SpecStaff == Init /\ [][NextStaff]_vars

(* ---------------- entities rebuilt by a storage layer ------------------ *)

\* Books as Book.from_dict rebuilds them from what Book.to_dict saved:
\* Available, or Borrowed by some member at some instant.
StoredBooks ==
    NewBooks \cup
    { Book_from_dict(Book_to_dict(Book_borrow(b, m, t).self)) :
        b \in NewBooks, m \in MemberIds, t \in Datetimes }

\* Sequences of distinct ISBNs: the lists Member.borrow_book can build
HeldLists ==
    {<< >>} \cup { << i >> : i \in ISBNs }
            \cup { l \in { << i, j >> : i \in ISBNs, j \in ISBNs } : l[1] # l[2] }

\* Members as Member.from_dict rebuilds them, already holding ISBNs
StoredMembers ==
    { Member_from_dict(Member_to_dict([m EXCEPT !.borrowed_books = l]), Epoch) :
        m \in NewMembers(Epoch), l \in HeldLists }

\* The Library driven with whatever add_book and register_member accept
NextAny ==
    \/ \E b \in StoredBooks : AddBook(b)
    \/ \E i \in AnyISBN : RemoveBook(i)
    \/ \E m \in StoredMembers : RegisterMember(m)
    \/ \E m \in AnyMemberId : RemoveMember(m)
    \/ \E m \in AnyMemberId, i \in AnyISBN, t \in Datetimes : BorrowBook(m, i, t)
    \/ \E m \in AnyMemberId, i \in AnyISBN : ReturnBook(m, i)

SpecAny == Init /\ [][NextAny]_vars

(* ----------------------- entities on their own ------------------------- *)

InitObj ==
    /\ books = EmptyDict
    /\ members = EmptyDict
    /\ librarians = EmptyDict
    /\ last = NoCall
    /\ book \in NewBooks
    /\ \E t \in Datetimes : member \in NewMembers(t)
    /\ librarian \in NewLibrarians
    /\ auth_ok = 0
    /\ NoCallers

BookBorrow(member_id, t) ==
    LET r == Book_borrow(book, member_id, t)
    IN  /\ book' = r.self
        /\ last' = Call("Book.borrow", book.isbn, member_id, r.ret, << >>)
        /\ UNCHANGED << lib_vars, member, librarian, auth_ok, conc_vars >>

BookReturn ==
    LET r == Book_return_book(book)
    IN  /\ book' = r.self
        /\ last' = Call("Book.return_book", book.isbn, "", r.ret, << >>)
        /\ UNCHANGED << lib_vars, member, librarian, auth_ok, conc_vars >>

MemberBorrow(isbn) ==
    LET r == Member_borrow_book(member, isbn)
    IN  /\ member' = r.self
        /\ last' = Call("Member.borrow_book", isbn, member.member_id, r.ret, << >>)
        /\ UNCHANGED << lib_vars, book, librarian, auth_ok, conc_vars >>

MemberReturn(isbn) ==
    LET r == Member_return_book(member, isbn)
    IN  /\ member' = r.self
        /\ last' = Call("Member.return_book", isbn, member.member_id, r.ret, << >>)
        /\ UNCHANGED << lib_vars, book, librarian, auth_ok, conc_vars >>

LibrarianAuthenticate(password, t) ==
    /\ librarian.login_count < MaxLogins
    /\ LET r == Librarian_authenticate(librarian, password, t)
       IN  /\ librarian' = r.self
           /\ last' = Call("Librarian.authenticate", password, "", r.ret, << >>)
           /\ auth_ok' = IF r.ret THEN auth_ok + 1 ELSE auth_ok
    /\ UNCHANGED << lib_vars, book, member, conc_vars >>

LibrarianChangePassword(old_password, new_password) ==
    LET r == Librarian_change_password(librarian, old_password, new_password)
    IN  /\ librarian' = r.self
        /\ last' = Call("Librarian.change_password", old_password, new_password,
                        r.ret, << >>)
        /\ UNCHANGED << lib_vars, book, member, auth_ok, conc_vars >>

NextObj ==
    \/ \E m \in MemberIds, t \in Datetimes : BookBorrow(m, t)
    \/ BookReturn
    \/ \E i \in ISBNs : MemberBorrow(i)
    \/ \E i \in ISBNs : MemberReturn(i)
    \/ \E p \in Passwords, t \in Datetimes : LibrarianAuthenticate(p, t)
    \/ \E o \in Passwords, n \in Passwords : LibrarianChangePassword(o, n)

SpecObj == InitObj /\ [][NextObj]_vars

(* ------------------- a librarian administering a Library ---------------- *)

\* Mutant: the administrative call is refused before the first login
Librarian_add_book_after_login(self, bks, b) ==
    IF self.login_count > 0
    THEN [self |-> self, books |-> Library_add_book(bks, b).books,
          ret |-> Library_add_book(bks, b).ret]
    ELSE [self |-> self, books |-> bks, ret |-> FALSE]

\* Librarian.add_book(library, book): return library.add_book(book)
Librarian_add_book(self, bks, b) ==
    LET r == Library_add_book(bks, b)
    IN  [self |-> self, books |-> r.books, ret |-> r.ret]

\* Librarian.remove_book(library, isbn): return library.remove_book(isbn)
Librarian_remove_book(self, bks, isbn) ==
    LET r == Library_remove_book(bks, isbn)
    IN  [self |-> self, books |-> r.books, ret |-> r.ret]

\* Librarian.register_member(library, member)
Librarian_register_member(self, mems, m) ==
    LET r == Library_register_member(mems, m)
    IN  [self |-> self, members |-> r.members, ret |-> r.ret]

\* Librarian.remove_member(library, member_id)
Librarian_remove_member(self, mems, member_id) ==
    LET r == Library_remove_member(mems, member_id)
    IN  [self |-> self, members |-> r.members, ret |-> r.ret]

LibrarianAddBook(b) ==
    LET r == Librarian_add_book(librarian, books, b)
    IN  /\ books' = r.books
        /\ librarian' = r.self
        /\ last' = Call("Librarian.add_book", b.isbn, "", r.ret, << >>)
        /\ UNCHANGED << members, librarians, book, member, auth_ok, conc_vars >>

LibrarianRemoveBook(isbn) ==
    LET r == Librarian_remove_book(librarian, books, isbn)
    IN  /\ books' = r.books
        /\ librarian' = r.self
        /\ last' = Call("Librarian.remove_book", isbn, "", r.ret, << >>)
        /\ UNCHANGED << members, librarians, book, member, auth_ok, conc_vars >>

LibrarianRegisterMember(m) ==
    LET r == Librarian_register_member(librarian, members, m)
    IN  /\ members' = r.members
        /\ librarian' = r.self
        /\ last' = Call("Librarian.register_member", "", m.member_id, r.ret, << >>)
        /\ UNCHANGED << books, librarians, book, member, auth_ok, conc_vars >>

LibrarianRemoveMember(member_id) ==
    LET r == Librarian_remove_member(librarian, members, member_id)
    IN  /\ members' = r.members
        /\ librarian' = r.self
        /\ last' = Call("Librarian.remove_member", "", member_id, r.ret, << >>)
        /\ UNCHANGED << books, librarians, book, member, auth_ok, conc_vars >>

\* library.add_librarian(librarian): the collection then holds this very object
RegisterSelf == AddLibrarian(librarian)

\* The librarian collection after the librarian object has become l:
\* a registered librarian is the same object as the one in the collection.
Aliased(l) ==
    IF l.librarian_id \in DOMAIN librarians
    THEN [librarians EXCEPT ![l.librarian_id] = l]
    ELSE librarians

AdminAuthenticate(password, t) ==
    /\ librarian.login_count < MaxLogins
    /\ LET r == Librarian_authenticate(librarian, password, t)
       IN  /\ librarian' = r.self
           /\ librarians' = Aliased(r.self)
           /\ last' = Call("Librarian.authenticate", password, "", r.ret, << >>)
           /\ auth_ok' = IF r.ret THEN auth_ok + 1 ELSE auth_ok
    /\ UNCHANGED << books, members, book, member, conc_vars >>

AdminChangePassword(old_password, new_password) ==
    LET r == Librarian_change_password(librarian, old_password, new_password)
    IN  /\ librarian' = r.self
        /\ librarians' = Aliased(r.self)
        /\ last' = Call("Librarian.change_password", old_password, new_password,
                        r.ret, << >>)
        /\ UNCHANGED << books, members, book, member, auth_ok, conc_vars >>

\* Library.__init__ and one constructed Librarian
InitAdmin ==
    /\ books = EmptyDict
    /\ members = EmptyDict
    /\ librarians = EmptyDict
    /\ last = NoCall
    /\ book = Book("Dune", "Herbert", "111")
    /\ member = Member("Alice", "M1", Epoch)
    /\ librarian \in NewLibrarians
    /\ auth_ok = 0
    /\ NoCallers

\* The Library administered through the librarian, members borrowing and
\* returning, the librarian logging in, changing password and being registered.
NextAdmin ==
    \/ \E b \in NewBooks : LibrarianAddBook(b)
    \/ \E i \in ISBNs : LibrarianRemoveBook(i)
    \/ \E m \in NewMembers(Epoch) : LibrarianRegisterMember(m)
    \/ \E m \in MemberIds : LibrarianRemoveMember(m)
    \/ \E m \in MemberIds, i \in ISBNs : BorrowBook(m, i, Epoch)
    \/ \E m \in MemberIds, i \in ISBNs : ReturnBook(m, i)
    \/ RegisterSelf
    \/ \E p \in Passwords, t \in Datetimes : AdminAuthenticate(p, t)
    \/ \E o \in Passwords, n \in Passwords : AdminChangePassword(o, n)

SpecAdmin == InitAdmin /\ [][NextAdmin]_vars

(* ---------------- several callers driving one Library ------------------ *)

\* The lock callers would take around a call of c: nobody else is inside one
LockFree(c) ==
    locking => \A d \in Callers \ {c} : calls[d].pc = "idle"

\* The lock around an operation that is a single step
LockFreeAll ==
    locking => \A d \in Callers : calls[d].pc = "idle"

\* The callers whose local `book` is the catalog's Book object for isbn
BookHolders(isbn) ==
    { c \in Callers : calls[c].pc = "book" /\ calls[c].isbn = isbn
                      /\ calls[c].b_det = None }

\* A place of the heap no caller refers to
FreeSlot == CHOOSE s \in Callers : heap[s] = None

\* The Book object caller c's local `book` refers to
BookOf(c) ==
    IF calls[c].b_det = None THEN books[calls[c].isbn]
    ELSE heap[calls[c].b_det[1]][1]

\* The Member object caller c's local `member` refers to
MemberOf(c) ==
    IF calls[c].m_det = None THEN members[c] ELSE calls[c].m_det[1]

\* Catalog and heap after caller c's Book object has become b and c's call
\* no longer uses it: a detached object nobody else refers to is dropped.
BookWritten(c, b) ==
    IF calls[c].b_det = None
    THEN [books |-> [books EXCEPT ![calls[c].isbn] = b], heap |-> heap]
    ELSE LET s == calls[c].b_det[1]
             shared == \E d \in Callers \ {c} :
                           calls[d].pc = "book" /\ calls[d].b_det = Some(s)
         IN  [books |-> books,
              heap |-> [heap EXCEPT ![s] = IF shared THEN Some(b) ELSE None]]

\* The member collection after caller c's Member object has become m
MemberWritten(c, m) ==
    IF calls[c].m_det = None THEN [members EXCEPT ![c] = m] ELSE members

\* borrow_book(c, isbn) up to the availability check:
\* the two lookups and the three early returns
BorrowCheck(c, isbn) ==
    /\ calls[c].pc = "idle"
    /\ LockFree(c)
    /\ calls' = [calls EXCEPT ![c] =
          IF c \notin DOMAIN members
          THEN IdleCaller("borrow_book", isbn, FALSE, << "Member not found" >>)
          ELSE IF isbn \notin DOMAIN books
          THEN IdleCaller("borrow_book", isbn, FALSE, << "Book not found" >>)
          ELSE IF ~ Book_is_available(books[isbn])
          THEN IdleCaller("borrow_book", isbn, FALSE, << "Book is not available" >>)
          ELSE [pc |-> "book", op |-> "borrow_book", isbn |-> isbn,
                ok |-> FALSE, msg |-> << >>, title |-> books[isbn].title,
                m_det |-> None, b_det |-> None]]
    /\ UNCHANGED << lib_vars, last, obj_vars, heap, locking >>

\* book.borrow(member_id)
BorrowBookStep(c) ==
    /\ calls[c].pc = "book" /\ calls[c].op = "borrow_book"
    /\ LockFree(c)
    /\ LET r == Book_borrow(BookOf(c), c, Epoch)
           w == BookWritten(c, r.self)
       IN  /\ books' = w.books
           /\ heap' = w.heap
           /\ calls' = [calls EXCEPT ![c] =
                 IF r.ret
                 THEN [@ EXCEPT !.pc = "member", !.b_det = None]
                 ELSE IdleCaller("borrow_book", @.isbn, FALSE,
                                 << "Failed to borrow book" >>)]
    /\ UNCHANGED << members, librarians, last, obj_vars, locking >>

\* member.borrow_book(isbn) and the return of the result
BorrowMemberStep(c) ==
    /\ calls[c].pc = "member" /\ calls[c].op = "borrow_book"
    /\ LockFree(c)
    /\ LET r == Member_borrow_book(MemberOf(c), calls[c].isbn)
       IN  /\ members' = MemberWritten(c, r.self)
           /\ calls' = [calls EXCEPT ![c] =
                 IF r.ret
                 THEN IdleCaller("borrow_book", @.isbn, TRUE,
                                 << "Book '", @.title, "' borrowed successfully" >>)
                 ELSE IdleCaller("borrow_book", @.isbn, FALSE,
                                 << "Failed to borrow book" >>)]
    /\ UNCHANGED << books, librarians, last, obj_vars, heap, locking >>

\* return_book(c, isbn) up to the has_borrowed check
ReturnCheck(c, isbn) ==
    /\ calls[c].pc = "idle"
    /\ LockFree(c)
    /\ calls' = [calls EXCEPT ![c] =
          IF c \notin DOMAIN members
          THEN IdleCaller("return_book", isbn, FALSE, << "Member not found" >>)
          ELSE IF isbn \notin DOMAIN books
          THEN IdleCaller("return_book", isbn, FALSE, << "Book not found" >>)
          ELSE IF ~ Member_has_borrowed(members[c], isbn)
          THEN IdleCaller("return_book", isbn, FALSE,
                          << "Member has not borrowed this book" >>)
          ELSE [pc |-> "book", op |-> "return_book", isbn |-> isbn,
                ok |-> FALSE, msg |-> << >>, title |-> books[isbn].title,
                m_det |-> None, b_det |-> None]]
    /\ UNCHANGED << lib_vars, last, obj_vars, heap, locking >>

\* book.return_book()
ReturnBookStep(c) ==
    /\ calls[c].pc = "book" /\ calls[c].op = "return_book"
    /\ LockFree(c)
    /\ LET r == Book_return_book(BookOf(c))
           w == BookWritten(c, r.self)
       IN  /\ books' = w.books
           /\ heap' = w.heap
           /\ calls' = [calls EXCEPT ![c] =
                 IF r.ret
                 THEN [@ EXCEPT !.pc = "member", !.b_det = None]
                 ELSE IdleCaller("return_book", @.isbn, FALSE,
                                 << "Failed to return book" >>)]
    /\ UNCHANGED << members, librarians, last, obj_vars, locking >>

\* member.return_book(isbn) and the return of the result
ReturnMemberStep(c) ==
    /\ calls[c].pc = "member" /\ calls[c].op = "return_book"
    /\ LockFree(c)
    /\ LET r == Member_return_book(MemberOf(c), calls[c].isbn)
       IN  /\ members' = MemberWritten(c, r.self)
           /\ calls' = [calls EXCEPT ![c] =
                 IF r.ret
                 THEN IdleCaller("return_book", @.isbn, TRUE,
                                 << "Book '", @.title, "' returned successfully" >>)
                 ELSE IdleCaller("return_book", @.isbn, FALSE,
                                 << "Failed to return book" >>)]
    /\ UNCHANGED << books, librarians, last, obj_vars, heap, locking >>

\* add_book by some caller, between the steps of the others
ConcAddBook(b) ==
    /\ LockFreeAll
    /\ books' = Library_add_book(books, b).books
    /\ UNCHANGED << members, librarians, last, obj_vars, conc_vars >>

\* register_member by some caller
ConcRegisterMember(m) ==
    /\ LockFreeAll
    /\ members' = Library_register_member(members, m).members
    /\ UNCHANGED << books, librarians, last, obj_vars, conc_vars >>

\* remove_book by some caller: the callers whose local `book` is the removed
\* object keep it, outside the catalog
ConcRemoveBook(isbn) ==
    /\ LockFreeAll
    /\ LET r == Library_remove_book(books, isbn)
           detach == r.ret /\ BookHolders(isbn) # {}
       IN  /\ books' = r.books
           /\ heap' = IF detach
                      THEN [heap EXCEPT ![FreeSlot] = Some(books[isbn])]
                      ELSE heap
           /\ calls' = IF detach
                       THEN [c \in Callers |->
                               IF c \in BookHolders(isbn)
                               THEN [calls[c] EXCEPT !.b_det = Some(FreeSlot)]
                               ELSE calls[c]]
                       ELSE calls
    /\ UNCHANGED << members, librarians, last, obj_vars, locking >>

\* remove_member by some caller: a caller whose local `member` is the removed
\* object keeps it, outside the collection
ConcRemoveMember(member_id) ==
    /\ LockFreeAll
    /\ LET r == Library_remove_member(members, member_id)
           detach == /\ r.ret
                     /\ calls[member_id].pc # "idle"
                     /\ calls[member_id].m_det = None
       IN  /\ members' = r.members
           /\ calls' = IF detach
                       THEN [calls EXCEPT ![member_id].m_det = Some(members[member_id])]
                       ELSE calls
    /\ UNCHANGED << books, librarians, last, obj_vars, heap, locking >>

\* A shared Library, used with or without the lock
InitConc ==
    /\ books = EmptyDict
    /\ members = EmptyDict
    /\ librarians = EmptyDict
    /\ last = NoCall
    /\ book = Book("Dune", "Herbert", "111")
    /\ member = Member("Alice", "M1", Epoch)
    /\ librarian = Librarian("Alice", "L1", "admin123")
    /\ auth_ok = 0
    /\ calls = [c \in Callers |-> IdleCaller("", "", FALSE, << >>)]
    /\ heap = [s \in Callers |-> None]
    /\ locking \in BOOLEAN

NextConc ==
    \/ \E b \in NewBooks : ConcAddBook(b)
    \/ \E m \in NewMembers(Epoch) : ConcRegisterMember(m)
    \/ \E i \in ISBNs : ConcRemoveBook(i)
    \/ \E m \in MemberIds : ConcRemoveMember(m)
    \/ \E c \in Callers, i \in ISBNs : BorrowCheck(c, i)
    \/ \E c \in Callers : BorrowBookStep(c)
    \/ \E c \in Callers : BorrowMemberStep(c)
    \/ \E c \in Callers, i \in ISBNs : ReturnCheck(c, i)
    \/ \E c \in Callers : ReturnBookStep(c)
    \/ \E c \in Callers : ReturnMemberStep(c)

SpecConc == InitConc /\ [][NextConc]_vars

(* ------------------ borrow_book calls racing, no lock ------------------- *)

\* A caller's one borrow_book call. Nothing is ever removed here, so the two
\* lookups and the availability check give what they would give as separate
\* steps at the moment of the check.
RaceBorrowCheck(c, isbn) ==
    /\ calls[c].op = ""
    /\ BorrowCheck(c, isbn)

\* A shared Library used without a lock
InitRace == InitConc /\ ~ locking

\* Books are added and members registered; each caller calls borrow_book
\* once, its steps interleaving freely with everything else.
NextRace ==
    \/ \E b \in NewBooks : ConcAddBook(b)
    \/ \E m \in NewMembers(Epoch) : ConcRegisterMember(m)
    \/ \E c \in Callers, i \in ISBNs : RaceBorrowCheck(c, i)
    \/ \E c \in Callers : BorrowBookStep(c)
    \/ \E c \in Callers : BorrowMemberStep(c)

SpecRace == InitRace /\ [][NextRace]_vars

(* ============================== claims =============================== *)

Borrowed(b) == ~ Book_is_available(b)

Holds(m, isbn) == Member_has_borrowed(m, isbn)

\* C1: in every state reached from an empty Library by add_book and
\* register_member of newly constructed entities, remove_book, remove_member,
\* borrow_book and return_book, a catalog book is Borrowed with borrower m
\* exactly when its ISBN is in registered member m's borrowed list.
C1_BookAndMemberAgree ==
    \A i \in DOMAIN books, m \in DOMAIN members :
        (Borrowed(books[i]) /\ books[i].borrowed_by = Some(members[m].member_id))
            <=> Holds(members[m], books[i].isbn)

\* Two members and two books, one book out with one member, after a borrow
C1_Witness ==
    /\ last.op = "borrow_book" /\ last.ok
    /\ \E i \in DOMAIN books, j \in DOMAIN books, m \in DOMAIN members,
          n \in DOMAIN members :
          /\ i # j /\ m # n
          /\ Borrowed(books[i]) /\ books[i].borrowed_by = Some(m)
          /\ Holds(members[m], i)
          /\ ~ Borrowed(books[j])

\* C2: a Book made by the constructor and driven by borrow and return_book
\* is available exactly when its borrower and borrow date are both absent,
\* and unavailable exactly when both are present.
C2_AvailableIffNoBorrower ==
    /\ book.available <=> (book.borrowed_by = None /\ book.borrow_date = None)
    /\ ~ book.available <=> (book.borrowed_by # None /\ book.borrow_date # None)

\* A book that was borrowed, returned, and is now checked after the return
C2_Witness ==
    /\ last.op = "Book.return_book" /\ last.ok
    /\ book.available

\* C3: borrow_book for a registered member and a catalog book that is
\* Borrowed returns (False, "Book is not available") and changes nothing.
C3_Step ==
    last'.op = "borrow_book" =>
    \A m \in AnyMemberId, i \in AnyISBN, t \in Datetimes :
        ( /\ m \in DOMAIN members
          /\ i \in DOMAIN books
          /\ Borrowed(books[i])
          /\ BorrowBook(m, i, t) )
        => /\ last'.ok = FALSE
           /\ last'.msg = << "Book is not available" >>
           /\ UNCHANGED lib_vars

C3_BorrowUnavailableFails == [][C3_Step]_vars

\* The call was made by the member who already holds the book
C3_Witness ==
    /\ last.op = "borrow_book"
    /\ last.msg = << "Book is not available" >>
    /\ last.mid \in DOMAIN members
    /\ last.key \in DOMAIN books
    /\ books[last.key].borrowed_by = Some(last.mid)

\* C4: wherever borrow_book(m, isbn) succeeds, return_book(m, isbn) right
\* after it succeeds and gives back the state before the borrow: the book
\* Available with no borrower and no date, m's list the same sequence,
\* everything else untouched.
C4_BorrowThenReturnRestores ==
    \A m \in AnyMemberId, i \in AnyISBN, t \in Datetimes :
        LET b == Library_borrow_book(books, members, m, i, t)
        IN  b.ok =>
              LET r == Library_return_book(b.books, b.members, m, i)
              IN  /\ r.ok
                  /\ r.books[i] = books[i]
                  /\ r.books[i].available
                  /\ r.books[i].borrowed_by = None
                  /\ r.books[i].borrow_date = None
                  /\ r.members[m].borrowed_books = members[m].borrowed_books
                  /\ r.books = books
                  /\ r.members = members

\* A return has just undone a borrow while the member still holds another book
C4_Witness ==
    /\ last.op = "return_book" /\ last.ok
    /\ members[last.mid].borrowed_books # << >>
    /\ \E t \in Datetimes :
          Library_borrow_book(books, members, last.mid, last.key, t).ok

\* C5: remove_member returns False and changes nothing when the member is
\* unknown or holds an ISBN; remove_book returns False and changes nothing
\* when the ISBN is unknown or the book is Borrowed; so no step unregisters
\* a member who holds a book or drops a Borrowed book from the catalog.
C5_Step ==
    /\ last'.op = "remove_member" =>
          \A m \in AnyMemberId :
              ( /\ m \notin DOMAIN members
                   \/ Member_get_borrowed_count(members[m]) > 0
                /\ RemoveMember(m) )
              => (last'.ok = FALSE /\ UNCHANGED lib_vars)
    /\ last'.op = "remove_book" =>
          \A i \in AnyISBN :
              ( /\ i \notin DOMAIN books \/ Borrowed(books[i])
                /\ RemoveBook(i) )
              => (last'.ok = FALSE /\ UNCHANGED lib_vars)
    /\ \A m \in DOMAIN members :
          Member_get_borrowed_count(members[m]) > 0 => m \in DOMAIN members'
    /\ \A i \in DOMAIN books :
          Borrowed(books[i]) => i \in DOMAIN books'

C5_NoRemovalWhileBorrowed == [][C5_Step]_vars

\* remove_book was refused for a book that is out
C5_Witness ==
    /\ last.op = "remove_book" /\ ~ last.ok
    /\ last.key \in DOMAIN books
    /\ Borrowed(books[last.key])
    /\ \E m \in DOMAIN members : Holds(members[m], last.key)

\* C6: in every state the Library's operations reach, also when add_book is
\* given a Book that is already Borrowed or register_member a Member that
\* already holds ISBNs, each Borrowed catalog book names a registered member
\* as borrower and each ISBN a registered member holds is a catalog key.
C6_NoOrphans ==
    /\ \A i \in DOMAIN books :
          Borrowed(books[i]) =>
              \E m \in DOMAIN members : books[i].borrowed_by = Some(m)
    /\ \A m \in DOMAIN members :
          \A k \in 1..Len(members[m].borrowed_books) :
              members[m].borrowed_books[k] \in DOMAIN books

Failed(call, text) == call.ok = FALSE /\ call.msg = << text >>

\* C7: borrow_book reports an unregistered member first (whatever the ISBN),
\* then an ISBN not in the catalog, then a Borrowed book, and in all three
\* cases leaves the Library as it was.
C7_Step ==
    last'.op = "borrow_book" =>
    \A m \in AnyMemberId, i \in AnyISBN, t \in Datetimes :
        BorrowBook(m, i, t) =>
            /\ m \notin DOMAIN members =>
                  (Failed(last', "Member not found") /\ UNCHANGED lib_vars)
            /\ (m \in DOMAIN members /\ i \notin DOMAIN books) =>
                  (Failed(last', "Book not found") /\ UNCHANGED lib_vars)
            /\ (m \in DOMAIN members /\ i \in DOMAIN books /\ Borrowed(books[i])) =>
                  (Failed(last', "Book is not available") /\ UNCHANGED lib_vars)

C7_BorrowValidationOrder == [][C7_Step]_vars

\* Neither the member nor the ISBN is known: the member is reported
C7_Witness ==
    /\ last.op = "borrow_book"
    /\ last.mid \notin DOMAIN members
    /\ last.key \notin DOMAIN books
    /\ Failed(last, "Member not found")
    /\ DOMAIN books # {} /\ DOMAIN members # {}

\* C8: return_book by a registered member of a catalog book that is not in
\* the member's list returns (False, "Member has not borrowed this book") and
\* changes nothing, also when another member has the book out; an unknown
\* member and an unknown ISBN are reported before that, in that order.
C8_Step ==
    last'.op = "return_book" =>
    \A m \in AnyMemberId, i \in AnyISBN :
        ReturnBook(m, i) =>
            /\ m \notin DOMAIN members =>
                  (Failed(last', "Member not found") /\ UNCHANGED lib_vars)
            /\ (m \in DOMAIN members /\ i \notin DOMAIN books) =>
                  (Failed(last', "Book not found") /\ UNCHANGED lib_vars)
            /\ (m \in DOMAIN members /\ i \in DOMAIN books /\ ~ Holds(members[m], i)) =>
                  (Failed(last', "Member has not borrowed this book")
                   /\ UNCHANGED lib_vars)

C8_ReturnNotHeldFails == [][C8_Step]_vars

\* The book is out with another member, who keeps it
C8_Witness ==
    /\ last.op = "return_book"
    /\ Failed(last, "Member has not borrowed this book")
    /\ last.mid \in DOMAIN members
    /\ last.key \in DOMAIN books
    /\ Borrowed(books[last.key])
    /\ \E n \in DOMAIN members :
          /\ n # last.mid
          /\ books[last.key].borrowed_by = Some(n)
          /\ Holds(members[n], last.key)

\* What insert-if-absent does to one collection
InsertIfAbsent(d, d2, key, value, ret) ==
    IF key \in DOMAIN d
    THEN ret = FALSE /\ d2 = d
    ELSE /\ ret = TRUE
         /\ DOMAIN d2 = DOMAIN d \cup {key}
         /\ d2[key] = value
         /\ \A k \in DOMAIN d : d2[k] = d[k]

\* C9: add_book, register_member and add_librarian return False and keep the
\* collection and the stored entity as they are when the key is taken, and
\* return True and add exactly that key when it is free.
C9_Step ==
    /\ last'.op = "add_book" =>
          \A b \in NewBooks :
              AddBook(b) =>
                  /\ InsertIfAbsent(books, books', b.isbn, b, last'.ok)
                  /\ UNCHANGED << members, librarians >>
    /\ last'.op = "register_member" =>
          \A t \in Datetimes : \A m \in NewMembers(t) :
              RegisterMember(m) =>
                  /\ InsertIfAbsent(members, members', m.member_id, m, last'.ok)
                  /\ UNCHANGED << books, librarians >>
    /\ last'.op = "add_librarian" =>
          \A l \in NewLibrarians :
              AddLibrarian(l) =>
                  /\ InsertIfAbsent(librarians, librarians', l.librarian_id, l,
                                    last'.ok)
                  /\ UNCHANGED << books, members >>

C9_InsertIfAbsent == [][C9_Step]_vars

\* A second librarian with a taken id was refused; the stored one has logged
\* in and changed the password, and a stored book is out with a member.
C9_Witness ==
    /\ last.op = "add_librarian" /\ ~ last.ok
    /\ librarians[last.key].login_count > 0
    /\ librarians[last.key].password = "secret"
    /\ \E i \in DOMAIN books, m \in DOMAIN members :
          Borrowed(books[i]) /\ Holds(members[m], i)

\* C10: from_dict(to_dict(x)) equals x on every field, for every Book, Member
\* and Librarian reached through the constructor and the public mutators.
C10_RoundTrip ==
    /\ Book_from_dict(Book_to_dict(book)) = book
    /\ \A t \in Datetimes : Member_from_dict(Member_to_dict(member), t) = member
    /\ Librarian_from_dict(Librarian_to_dict(librarian)) = librarian

\* A borrowed book, a member holding two ISBNs, a librarian who has logged
\* in; one instant with a fraction of a second and one without.
C10_Witness ==
    /\ book.borrow_date # None
    /\ Len(member.borrowed_books) = 2
    /\ librarian.last_login # None
    /\ book.borrow_date[1].usec # 0
    /\ librarian.last_login[1].usec = 0

\* How often x occurs in a list
RECURSIVE Count(_, _)
Count(list, x) ==
    IF list = << >> THEN 0
    ELSE (IF Head(list) = x THEN 1 ELSE 0) + Count(Tail(list), x)

\* C11: in every reachable state each catalog book is in exactly one of
\* get_available_books and get_borrowed_books, by its availability flag, and
\* get_statistics gives the number of catalog entries, of Available books, of
\* Borrowed books and of members, the two middle ones adding up to the first.
C11_PartitionAndStatistics ==
    LET avail == Library_get_available_books(books)
        out == Library_get_borrowed_books(books)
        stats == Library_get_statistics(books, members)
    IN  /\ \A i \in DOMAIN books :
              /\ Count(avail, books[i]) = (IF books[i].available THEN 1 ELSE 0)
              /\ Count(out, books[i]) = (IF books[i].available THEN 0 ELSE 1)
        /\ \A n \in 1..Len(avail) : \E i \in DOMAIN books : avail[n] = books[i]
        /\ \A n \in 1..Len(out) : \E i \in DOMAIN books : out[n] = books[i]
        /\ stats.total_books = Cardinality(DOMAIN books)
        /\ stats.available_books =
              Cardinality({ i \in DOMAIN books : books[i].available })
        /\ stats.borrowed_books =
              Cardinality({ i \in DOMAIN books : ~ books[i].available })
        /\ stats.total_members = Cardinality(DOMAIN members)
        /\ stats.available_books + stats.borrowed_books = stats.total_books

\* One book in, one book out, two members, right after a borrow
C11_Witness ==
    /\ last.op = "borrow_book" /\ last.ok
    /\ Len(Library_get_available_books(books)) = 1
    /\ Len(Library_get_borrowed_books(books)) = 1
    /\ Library_get_statistics(books, members).total_members = 2

\* C12: Book.borrow on a Borrowed book returns False and keeps the recorded
\* borrower and date; Book.return_book on an Available book returns False and
\* changes nothing; so no step takes the recorded borrower from one member
\* straight to another: the book is Available in between.
C12_Step ==
    /\ last'.op = "Book.borrow" =>
          \A m \in MemberIds, t \in Datetimes :
              (BookBorrow(m, t) /\ ~ book.available) =>
                  (last'.ok = FALSE /\ book' = book)
    /\ (last'.op = "Book.return_book" /\ BookReturn /\ book.available) =>
          (last'.ok = FALSE /\ book' = book)
    /\ (book.borrowed_by # None /\ book'.borrowed_by # None) =>
          (book'.borrowed_by = book.borrowed_by /\ book'.borrow_date = book.borrow_date)

C12_TwoStateBook == [][C12_Step]_vars

\* Another member tried to borrow the book while it was out
C12_Witness ==
    /\ last.op = "Book.borrow" /\ ~ last.ok
    /\ ~ book.available
    /\ book.borrowed_by # Some(last.mid)

NoDuplicates(list) ==
    \A j \in 1..Len(list), k \in 1..Len(list) : list[j] = list[k] => j = k

\* list without the entries equal to x, the others in their order
Without(list, x) == LET keep(y) == y # x IN SelectSeq(list, keep)

\* C13: a constructed Member driven by borrow_book and return_book never
\* holds an ISBN twice; borrow_book returns False and keeps the list when the
\* ISBN is held, else appends it at the end and returns True; return_book
\* returns False and keeps the list when the ISBN is not held, else removes it
\* and returns True, and has_borrowed(isbn) is then False.
C13_Step ==
    /\ NoDuplicates(member'.borrowed_books)
    /\ last'.op = "Member.borrow_book" =>
          \A i \in ISBNs :
              MemberBorrow(i) =>
                  IF Member_has_borrowed(member, i)
                  THEN last'.ok = FALSE /\ member' = member
                  ELSE /\ last'.ok = TRUE
                       /\ member'.borrowed_books = Append(member.borrowed_books, i)
    /\ last'.op = "Member.return_book" =>
          \A i \in ISBNs :
              MemberReturn(i) =>
                  IF ~ Member_has_borrowed(member, i)
                  THEN last'.ok = FALSE /\ member' = member
                  ELSE /\ last'.ok = TRUE
                       /\ member'.borrowed_books = Without(member.borrowed_books, i)
                       /\ ~ Member_has_borrowed(member', i)

C13_NoDuplicateHolds ==
    NoDuplicates(member.borrowed_books) /\ [][C13_Step]_vars

\* borrow_book was refused for an ISBN the member holds, next to another one
C13_Witness ==
    /\ last.op = "Member.borrow_book" /\ ~ last.ok
    /\ Len(member.borrowed_books) = 2
    /\ Member_has_borrowed(member, last.key)

\* The counter and last-login against the number of successful calls
C14_Counted ==
    /\ Librarian_get_login_count(librarian) = auth_ok
    /\ Librarian_get_last_login(librarian) = None <=> auth_ok = 0

\* C14: authenticate returns True exactly when the password is the stored
\* credential; a successful call adds one to the login counter and sets
\* last-login, a failed call changes nothing; so the counter is the number of
\* calls that returned True and last-login is absent exactly when it is zero.
C14_Step ==
    /\ C14_Counted'
    /\ last'.op = "Librarian.authenticate" =>
          \A p \in Passwords, t \in Datetimes :
              LibrarianAuthenticate(p, t) =>
                  /\ last'.ok <=> p = librarian.password
                  /\ IF last'.ok
                     THEN /\ librarian'.login_count = librarian.login_count + 1
                          /\ librarian'.last_login = Some(t)
                          /\ librarian'.password = librarian.password
                     ELSE librarian' = librarian

Authenticates(l, password) ==
    \A t \in Datetimes : Librarian_authenticate(l, password, t).ret

\* C15: change_password(old, new) succeeds iff old is the current credential;
\* after success new authenticates and old (when different) does not; after
\* failure the same passwords authenticate as before; the login counter and
\* last-login are never altered by it.
C15_Step ==
    last'.op = "Librarian.change_password" =>
        LET old == last'.key
            new == last'.mid
        IN  /\ last'.ok <=> old = librarian.password
            /\ librarian'.login_count = librarian.login_count
            /\ librarian'.last_login = librarian.last_login
            /\ IF last'.ok
               THEN /\ Authenticates(librarian', new)
                    /\ old # new => ~ Authenticates(librarian', old)
               ELSE /\ librarian'.password = librarian.password
                    /\ \A p \in Passwords :
                           Authenticates(librarian', p)
                               <=> Authenticates(librarian, p)

C15_ChangePassword == [][C15_Step]_vars

\* A successful change to a different password on a librarian that has logged in
C15_Witness ==
    /\ last.op = "Librarian.change_password" /\ last.ok
    /\ last.key # last.mid
    /\ librarian.password = last.mid
    /\ librarian.login_count = 1

\* C16: each administrative method of Librarian returns what the Library
\* operation returns and leaves the Library as that operation leaves it,
\* whatever the librarian's login counter, last-login and registration are,
\* and leaves the librarian itself unchanged.
C16_Step ==
    /\ last'.op = "Librarian.add_book" =>
          \A b \in NewBooks :
              LibrarianAddBook(b) =>
                  /\ books' = Library_add_book(books, b).books
                  /\ last'.ok = Library_add_book(books, b).ret
                  /\ UNCHANGED << members, librarians, librarian >>
    /\ last'.op = "Librarian.remove_book" =>
          \A i \in ISBNs :
              LibrarianRemoveBook(i) =>
                  /\ books' = Library_remove_book(books, i).books
                  /\ last'.ok = Library_remove_book(books, i).ret
                  /\ UNCHANGED << members, librarians, librarian >>
    /\ last'.op = "Librarian.register_member" =>
          \A m \in NewMembers(Epoch) :
              LibrarianRegisterMember(m) =>
                  /\ members' = Library_register_member(members, m).members
                  /\ last'.ok = Library_register_member(members, m).ret
                  /\ UNCHANGED << books, librarians, librarian >>
    /\ last'.op = "Librarian.remove_member" =>
          \A m \in MemberIds :
              LibrarianRemoveMember(m) =>
                  /\ members' = Library_remove_member(members, m).members
                  /\ last'.ok = Library_remove_member(members, m).ret
                  /\ UNCHANGED << books, librarians, librarian >>

C16_AdminDelegates == [][C16_Step]_vars

\* A book added by a librarian that has never logged in and is not registered
C16_Witness ==
    /\ last.op = "Librarian.add_book" /\ last.ok
    /\ librarian.login_count = 0
    /\ librarian.last_login = None
    /\ librarian.librarian_id \notin DOMAIN librarians
    /\ last.key \in DOMAIN books

\* The generic failure results of borrow_book and return_book
GenericFailure(call) ==
    \/ Failed(call, "Failed to borrow book")
    \/ Failed(call, "Failed to return book")

\* C17: from an empty Library, with Library operations on newly constructed
\* entities only, no call ends in a generic failure; a borrow_book that passes
\* its three checks succeeds with the book Borrowed by the member and the ISBN
\* in the member's list, and a return_book that passes its checks succeeds
\* with the book Available and the ISBN out of the member's list.
C17_Step ==
    /\ ~ GenericFailure(last')
    /\ last'.op = "borrow_book" =>
          LET i == last'.key
              m == last'.mid
          IN  (/\ m \in DOMAIN members /\ i \in DOMAIN books
               /\ Book_is_available(books[i])) =>
                  /\ last'.ok
                  /\ Book_get_borrowed_by(books'[i]) = Some(m)
                  /\ Book_get_borrow_date(books'[i]) # None
                  /\ Holds(members'[m], i)
                  /\ Member_get_borrowed_count(members'[m])
                        = Member_get_borrowed_count(members[m]) + 1
    /\ last'.op = "return_book" =>
          LET i == last'.key
              m == last'.mid
          IN  (/\ m \in DOMAIN members /\ i \in DOMAIN books
               /\ Holds(members[m], i)) =>
                  /\ last'.ok
                  /\ Book_is_available(books'[i])
                  /\ ~ Holds(members'[m], i)
                  /\ Member_get_borrowed_count(members'[m])
                        = Member_get_borrowed_count(members[m]) - 1

C17_NoGenericFailure == ~ GenericFailure(last) /\ [][C17_Step]_vars

\* A return that succeeded for a member who held two books
C17_Witness ==
    /\ last.op = "return_book" /\ last.ok
    /\ last.mid \in DOMAIN members
    /\ Member_get_borrowed_count(members[last.mid]) = 1
    /\ \E i \in DOMAIN books : Borrowed(books[i])

\* C18: borrow_book of an Available book by a member whose list already has
\* the ISBN returns (False, "Failed to borrow book") and leaves the book
\* Borrowed by that member with a borrow date, the member as it was;
\* return_book of an Available book by a member whose list has the ISBN
\* returns (False, "Failed to return book") and leaves the member's list
\* as it was.
C18_Step ==
    /\ last'.op = "borrow_book" =>
          LET i == last'.key
              m == last'.mid
          IN  (/\ m \in DOMAIN members /\ i \in DOMAIN books
               /\ Book_is_available(books[i])
               /\ Holds(members[m], i)) =>
                  /\ Failed(last', "Failed to borrow book")
                  /\ Borrowed(books'[i])
                  /\ Book_get_borrowed_by(books'[i]) = Some(m)
                  /\ Book_get_borrow_date(books'[i]) # None
                  /\ books' # books
                  /\ members' = members
    /\ last'.op = "return_book" =>
          LET i == last'.key
              m == last'.mid
          IN  (/\ m \in DOMAIN members /\ i \in DOMAIN books
               /\ Holds(members[m], i)
               /\ Book_is_available(books[i])) =>
                  /\ Failed(last', "Failed to return book")
                  /\ members' = members
                  /\ Holds(members'[m], i)
                  /\ books' = books

C18_NoRollback == [][C18_Step]_vars

\* A failed borrow_book that has left the book out with the caller
C18_Witness ==
    /\ Failed(last, "Failed to borrow book")
    /\ last.key \in DOMAIN books /\ last.mid \in DOMAIN members
    /\ Book_get_borrowed_by(books[last.key]) = Some(last.mid)
    /\ Holds(members[last.mid], last.key)

\* A failed return_book of an Available book the member lists
C18_ReturnWitness ==
    /\ Failed(last, "Failed to return book")
    /\ last.key \in DOMAIN books /\ last.mid \in DOMAIN members
    /\ Book_is_available(books[last.key])
    /\ Holds(members[last.mid], last.key)

\* The Library after return_book(b.get_borrowed_by(), b.isbn) has been called
\* for each Borrowed book b among the ISBNs listed in keys, one after another
RECURSIVE ReturnAll(_, _, _)
ReturnAll(bks, mems, keys) ==
    IF keys = << >>
    THEN [books |-> bks, members |-> mems, ok |-> TRUE]
    ELSE LET i == Head(keys)
         IN  IF Borrowed(bks[i])
             THEN LET r == Library_return_book(bks, mems,
                                               Book_get_borrowed_by(bks[i])[1], i)
                      rest == ReturnAll(r.books, r.members, Tail(keys))
                  IN  [rest EXCEPT !.ok = @ /\ r.ok]
             ELSE ReturnAll(bks, mems, Tail(keys))

\* C20: in every state reached from an empty Library by Library operations on
\* newly constructed entities, return_book(b.get_borrowed_by(), b.isbn)
\* succeeds and makes b Available for each Borrowed catalog book b; the
\* returns of all Borrowed books, one after another, all succeed and lead to a
\* state where all books are Available and remove_book of every catalog book
\* and remove_member of every registered member succeed.
C20_CanAlwaysGiveBack ==
    /\ \A i \in DOMAIN books :
          Borrowed(books[i]) =>
              /\ Book_get_borrowed_by(books[i]) # None
              /\ LET r == Library_return_book(books, members,
                                              Book_get_borrowed_by(books[i])[1], i)
                 IN  r.ok /\ Book_is_available(r.books[i])
    /\ LET end == ReturnAll(books, members, KeyList(DOMAIN books))
       IN  /\ end.ok
           /\ DOMAIN end.books = DOMAIN books
           /\ DOMAIN end.members = DOMAIN members
           /\ \A i \in DOMAIN end.books : Book_is_available(end.books[i])
           /\ \A i \in DOMAIN end.books : Library_remove_book(end.books, i).ret
           /\ \A m \in DOMAIN end.members :
                  Library_remove_member(end.members, m).ret

\* Every book of a two-book catalog is out, with two different members
C20_Witness ==
    /\ last.op = "borrow_book" /\ last.ok
    /\ DOMAIN books = ISBNs
    /\ \A i \in DOMAIN books : Borrowed(books[i])
    /\ \E i \in DOMAIN books, j \in DOMAIN books :
           books[i].borrowed_by # books[j].borrowed_by

\* Book and Member state say the same: every Borrowed catalog book is in the
\* list of its borrower, who is registered, and every ISBN in a registered
\* member's list is a catalog book Borrowed by that member.
Consistent ==
    /\ \A i \in DOMAIN books :
          Borrowed(books[i]) =>
              /\ Book_get_borrowed_by(books[i]) # None
              /\ Book_get_borrowed_by(books[i])[1] \in DOMAIN members
              /\ Holds(members[Book_get_borrowed_by(books[i])[1]], i)
    /\ \A m \in DOMAIN members :
          /\ NoDuplicates(members[m].borrowed_books)
          /\ \A i \in ISBNs :
                Holds(members[m], i) =>
                    /\ i \in DOMAIN books
                    /\ Book_get_borrowed_by(books[i]) = Some(m)

\* No caller is inside a call
AllReturned == \A c \in Callers : calls[c].pc = "idle"

\* C19: when every Library operation runs under one per-Library lock, Book
\* and Member state agree whenever all calls have completed; without the lock,
\* with the check, the Book mutation and the Member mutation of borrow_book
\* and return_book as separate steps among the other callers' operations, a
\* state where they disagree is reached after all calls have completed.
C19_LockedConsistent ==
    locking =>
        /\ \A c \in Callers, d \in Callers :
              (calls[c].pc # "idle" /\ calls[d].pc # "idle") => c = d
        /\ heap = [s \in Callers |-> None]
        /\ AllReturned => Consistent

\* Without the lock: all calls have completed, a borrow_book has reported
\* success, and the book is Borrowed by a member who is no longer registered
C19_Witness ==
    /\ ~ locking
    /\ AllReturned
    /\ \E i \in DOMAIN books :
          /\ Borrowed(books[i])
          /\ Book_get_borrowed_by(books[i])[1] \notin DOMAIN members
          /\ calls[Book_get_borrowed_by(books[i])[1]].ok
          /\ calls[Book_get_borrowed_by(books[i])[1]].op = "borrow_book"

\* Without the lock: all calls have completed and a member holds the ISBN of
\* a book that was removed between the availability check and the Book mutation
C19_RemovedBookHeld ==
    /\ ~ locking
    /\ AllReturned
    /\ \E m \in DOMAIN members, i \in ISBNs :
          /\ Holds(members[m], i)
          /\ i \notin DOMAIN books
          /\ calls[m].ok /\ calls[m].isbn = i

\* With the lock: a borrow_book has completed and the book is out
C19_LockedBorrow ==
    /\ locking
    /\ AllReturned
    /\ \E m \in DOMAIN members :
          /\ calls[m].ok /\ calls[m].op = "borrow_book"
          /\ Holds(members[m], calls[m].isbn)

\* C21: return_book(member_id, isbn) succeeds only if the book's recorded
\* borrower was member_id just before the call, and never makes Available a
\* book recorded as borrowed by a different member; in every state the
\* Library's operations reach, also when register_member is given a Member
\* that already lists ISBNs.
C21_Step ==
    last'.op = "return_book" =>
        LET i == last'.key
            m == last'.mid
        IN  /\ last'.ok =>
                  /\ i \in DOMAIN books
                  /\ Book_get_borrowed_by(books[i]) = Some(m)
            /\ (/\ i \in DOMAIN books
                /\ Borrowed(books[i])
                /\ Book_get_borrowed_by(books[i]) # Some(m)) =>
                   /\ i \in DOMAIN books'
                   /\ Borrowed(books'[i])
                   /\ Book_get_borrowed_by(books'[i]) = Book_get_borrowed_by(books[i])

C21_ReturnOnlyByBorrower == [][C21_Step]_vars

\* A return that succeeded for a member other than the book's borrower:
\* the book is Available while its borrower still lists it
C21_ReturnedByAnother ==
    /\ last.op = "return_book" /\ last.ok
    /\ Book_is_available(books[last.key])
    /\ \E n \in DOMAIN members :
          n # last.mid /\ Holds(members[n], last.key)

\* Caller c's borrow_book(c, i) has returned, having found member and book
RaceDone(c, i) ==
    /\ calls[c].pc = "idle" /\ calls[c].op = "borrow_book" /\ calls[c].isbn = i
    /\ calls[c].msg # << "Member not found" >>
    /\ calls[c].msg # << "Book not found" >>

\* Caller w won the book i against caller l
RaceWonBy(w, l, i) ==
    /\ calls[w].ok /\ ~ calls[l].ok
    /\ calls[w].msg = << "Book '", books[i].title, "' borrowed successfully" >>
    /\ \/ calls[l].msg = << "Book is not available" >>
       \/ calls[l].msg = << "Failed to borrow book" >>
    /\ Book_get_borrowed_by(books[i]) = Some(w)
    /\ Holds(members[w], i)
    /\ ~ Holds(members[l], i)

\* C22: without a lock, two borrow_book calls for the same Available ISBN by
\* two different registered members, their steps interleaving freely, never
\* both succeed; once both have returned exactly one has succeeded, the other
\* has returned "Book is not available" or "Failed to borrow book", the book's
\* borrower is the winner and only the winner's list has the ISBN.
C22_OneWinner ==
    \A c \in Callers : \A d \in Callers \ {c}, i \in ISBNs :
        /\ ~ (/\ calls[c].op = "borrow_book" /\ calls[c].isbn = i /\ calls[c].ok
              /\ calls[d].op = "borrow_book" /\ calls[d].isbn = i /\ calls[d].ok)
        /\ (RaceDone(c, i) /\ RaceDone(d, i)) =>
              (RaceWonBy(c, d, i) \/ RaceWonBy(d, c, i))

\* Both callers passed the availability check and the loser's Book.borrow failed
C22_Witness ==
    \E c \in Callers : \E d \in Callers \ {c}, i \in ISBNs :
        /\ RaceDone(c, i) /\ RaceDone(d, i)
        /\ calls[c].ok
        /\ calls[d].msg = << "Failed to borrow book" >>

\* The loser's check came after the winner's Book.borrow
C22_LateCheck ==
    \E c \in Callers : \E d \in Callers \ {c}, i \in ISBNs :
        /\ RaceDone(c, i) /\ RaceDone(d, i)
        /\ calls[c].ok
        /\ calls[d].msg = << "Book is not available" >>

====
